---- MODULE Spec2Model ----
(***************************************************************************)
(* MAC allocation of CrystalAutoSetup: several provisioning stations run   *)
(* BoardSetup.assign_mac_address against one shared git ledger (db.csv on  *)
(* the main line of the mac-db repository), each through its own local     *)
(* working copy (/tmp/mac-db on its host).                                 *)
(*                                                                         *)
(* A ledger is the sequence of the rows of db.csv.  A row keeps its MAC,   *)
(* its second column and the line terminator it is stored with: the csv    *)
(* writer of mark_mac_as_used rewrites every row with CR+LF.  The empty    *)
(* sequence stands for a working copy directory that does not exist.       *)
(*                                                                         *)
(* The serial console side is modelled in further specifications           *)
(* over the same variables: SpecFuse (enter_uboot, wait_for_boot_prompt,   *)
(* send_command and write_mac_address), SpecConv (convert_mac_to_fuse_     *)
(* values and the formatting of the fuse commands) and SpecLogin           *)
(* (wait_for_boot_completion and attempt_login).  Text received from the   *)
(* board is an input; the code only tests it for substrings, so a          *)
(* response is the set of the tested substrings it contains.               *)
(***************************************************************************)
EXTENDS Integers, Sequences, FiniteSets, TLC

\* ------------------------------------------------------------------ bounds
NumStations == 2
NumBoards == 2
NumMacs == 2
MaxRuns == 3

Stations == 1..NumStations
Serials == 1..NumBoards
Macs == 1..NumMacs

\* ------------------------------------------------------- program constants
\* the sentinel "0" of the second column: the row is unassigned
Unassigned == 0
\* Python's None as the result of get_available_mac / get_mac_for_serial
NoMac == 0
\* the serial of a board provisioned before the stations of the model started
LegacySerial == NumBoards + 1

Absent == << >>
Eols == {"LF", "CRLF"}

Row(m, x, e) == [mac |-> m, serial |-> x, eol |-> e]

VARIABLES
    remote,     \* db.csv at the head of origin/main of the shared repository
    local,      \* station -> db.csv of its working copy (HEAD of the checked out branch)
    base,       \* station -> db.csv at its remote-tracking ref origin/main (last fetch or clone)
    pc,         \* station -> position in assign_mac_address
    board,      \* station -> serial of the attached board (serial_number), 0 if none
    mac_addr,   \* station -> the local mac_addr of assign_mac_address
    self_mac_addr, \* station -> self.mac_addr, kept for the label
    newly,      \* station -> self.mac_newly_assigned
    fetched,    \* station -> the ledger call just made read content it fetched from the remote head
                \* (looked at until the run moves on to the bootloader)
    existed,    \* station -> MAC the remote ledger held for the board when get_mac_for_serial ran
    stale,      \* station -> a claim was rejected and no fetch/reset has succeeded since
    shape_ok,   \* station -> what verify_pr_changes would answer for the claim branch
    acts,       \* station -> what this invocation has done so far
    fused,      \* serial -> MACs sent to that board in fuse-program commands
    runs,       \* runs of assign_mac_address started so far, retries included
    \* --- fuse programmer and bootloader bridge (SpecFuse)
    fpc,        \* position in enter_uboot / wait_for_boot_prompt / write_mac_address
    sent,       \* what this invocation has written to the UART, in order
    response,   \* fuse word or later command -> what send_command read before any answer
    final_response, \* fuse word -> what send_command read after it sent the answer
    answered,   \* fuse word -> send_command sent the affirmative answer
    judged,     \* fuse word -> write_mac_address's verdict on it
    result,     \* what write_mac_address returned
    seen_uboot, \* the marker "=>" was in the input since the power cycle
    polls,      \* read_uart rounds of wait_for_boot_prompt so far
    reported,   \* write_mac_address has returned False and no retry was requested since
    fruns,      \* runs started by the operator so far
    \* --- MAC conversion (SpecConv)
    mac_str,    \* the argument of convert_mac_to_fuse_values
    cstep,      \* position: "input", "converted", "formatted"
    fuse_values, \* the pair (high, low) it returned
    cmd_low,    \* the low-word command as formatted by write_mac_address
    cmd_high,   \* the high-word command
    \* --- boot/login pass (SpecLogin)
    variant,    \* which AutoSetup file runs
    lpc,        \* position in wait_for_boot_completion / attempt_login
    lsent,      \* credentials written to the UART, in order
    heard,      \* what each read of the pass returned, in order, with the place of the read
    lresult,    \* what attempt_login returned (or that it raised)
    elapsed,    \* polling rounds of wait_for_boot_completion so far
    wire,       \* the lines the pass has written to the UART, each with its line end
    \* --- the step sequence of main (SpecMain)
    program,    \* which main runs
    use_button, \* BoardSetup.use_button (False under --no-button)
    mpc,        \* position in main
    step_ix,    \* index in steps of the step the for loop is at
    attempt,    \* passes of the step sequence started so far
    powered,    \* the level last written to CRYSTAL_POWER_PIN
    uart_open,  \* setup.uart exists and is open
    mlog,       \* what main has done so far, in order
    \* --- one wait on the byte stream (SpecPoll)
    waiter,     \* the function that waits
    stream,     \* the characters the board sends while it waits
    arrived,    \* poll -> the characters that are in the input buffer at that poll
    pround,     \* polls done
    found,      \* what the wait returned
    \* --- provisioning processes on shared hosts (SpecHost)
    on_host,    \* process -> the host it runs on
    hpc,        \* process -> how far its MACDatabase has come
    workdir,    \* directory -> what the local working copy there holds
    \* --- the label at the end of a run (SpecLabel)
    kpc,        \* position of main in its list of steps
    tries,      \* passes of main's retry loop started so far
    in_ledger,  \* the main line of the ledger has a row with this board's serial
    was_in_ledger, \* the same, when the process started
    mac_newly_assigned, \* self.mac_newly_assigned
    programmed_by_me, \* write_mac_address has returned True in this process
    recorded_by_me, \* this process has merged the claim of the MAC it programmed
    print_attempt, \* attempt of try_print_label
    printed     \* labels sent to the printer by this process

alloc_vars == << remote, local, base, pc, board, mac_addr, self_mac_addr, newly, fetched,
                 existed, stale, shape_ok, acts, fused, runs >>

fuse_vars == << fpc, sent, response, final_response, answered, judged, result, seen_uboot,
                polls, reported, fruns >>

conv_vars == << mac_str, cstep, fuse_values, cmd_low, cmd_high >>

login_vars == << variant, lpc, lsent, heard, lresult, elapsed, wire >>

main_vars == << program, use_button, mpc, step_ix, attempt, powered, uart_open, mlog >>

poll_vars == << waiter, stream, arrived, pround, found >>

host_vars == << on_host, hpc, workdir >>

label_vars == << kpc, tries, in_ledger, was_in_ledger, mac_newly_assigned,
                 programmed_by_me, recorded_by_me, print_attempt, printed >>

vars == << alloc_vars, fuse_vars, conv_vars, login_vars, main_vars, poll_vars,
          host_vars, label_vars >>

\* ------------------------------------------------------------ pure helpers
\* the scan without its early return: the last unassigned row wins
RECURSIVE scan_available_last(_, _)
scan_available_last(rows, i) ==
    IF i > Len(rows) THEN NoMac
    ELSE LET later == scan_available_last(rows, i + 1)
         IN  IF later # NoMac THEN later
             ELSE IF rows[i].serial = Unassigned THEN rows[i].mac ELSE NoMac

\* macdb.py get_available_mac, the loop over csv.reader
RECURSIVE scan_available(_, _)
scan_available(rows, i) ==
    IF i > Len(rows) THEN NoMac
    ELSE IF rows[i].serial = Unassigned THEN rows[i].mac
    ELSE scan_available(rows, i + 1)

\* get_available_mac after the sync: open() of a missing directory raises
get_available_mac(rows) ==
    IF rows = Absent THEN NoMac ELSE scan_available(rows, 1)

\* macdb.py get_mac_for_serial, the loop over csv.reader
RECURSIVE scan_serial(_, _, _)
scan_serial(rows, serial, i) ==
    IF i > Len(rows) THEN NoMac
    ELSE IF rows[i].serial = serial /\ rows[i].serial # Unassigned THEN rows[i].mac
    ELSE scan_serial(rows, serial, i + 1)

get_mac_for_serial(rows, serial) ==
    IF rows = Absent THEN NoMac ELSE scan_serial(rows, serial, 1)

\* mark_mac_as_used, lines 169-185: every row whose first column is mac_addr
\* becomes [mac_addr, serial]; csv.writer ends every row with CR+LF
rewrite_rows(rows, m, serial) ==
    [ i \in 1..Len(rows) |->
        IF rows[i].mac = m THEN Row(m, serial, "CRLF")
        ELSE Row(rows[i].mac, rows[i].serial, "CRLF") ]

updated(rows, m) == \E i \in 1..Len(rows) : rows[i].mac = m

\* git diff origin/main..branch --numstat: lines removed = lines added =
\* rows that differ (rows are never inserted or dropped by the rewrite)
numstat(origin, branch) ==
    Cardinality({ i \in 1..Len(branch) : origin[i] # branch[i] })

\* macdb.py verify_pr_changes
verify_pr_changes(origin, branch) == numstat(origin, branch) = 1

\* gh pr merge --merge: three-way merge of the branch into main over their
\* merge base, line by line; a line changed differently on both sides conflicts
merge_conflict(b, m, r) ==
    \E i \in 1..Len(r) : b[i] # m[i] /\ b[i] # r[i] /\ m[i] # r[i]

\* a merge gate that lets every change through
merge_pull_request_forced(b, m, r) == TRUE

\* merge_pull_request: gh pr merge can exit with 0 only without a conflict
merge_pull_request(b, m, r) == ~merge_conflict(b, m, r)

\* the branch's file put on the main line as it is
merge_result_overwrite(b, m, r) == r

\* db.csv on the main line after the merge commit
merge_result(b, m, r) ==
    [ i \in 1..Len(r) |-> IF r[i] = b[i] THEN m[i] ELSE r[i] ]

\* sync_and_verify_db: cd local_path && git fetch && git reset --hard origin/main
\* run through the shell; the working copy it leaves (cur: the working copy
\* before, net: the fetch reached the remote)
sync_local(cur, net) ==
    IF cur = Absent THEN Absent
    ELSE IF net THEN remote ELSE cur

\* the remote-tracking ref origin/main it leaves
sync_origin(cur, origin, net) ==
    IF cur = Absent THEN Absent
    ELSE IF net THEN remote ELSE origin

\* the fetch and the hard reset both took place
sync_done(cur, net) == cur # Absent /\ net

\* the value sync_and_verify_db returns: subprocess.run does not raise on a
\* non-zero exit status, so the except branch is never taken
sync_and_verify_db(cur, net) == TRUE

\* setup_git: clone when the working copy directory does not exist
setup_git(cur, net) ==
    IF cur = Absent THEN (IF net THEN remote ELSE Absent) ELSE cur

setup_git_origin(cur, origin, net) ==
    IF cur = Absent THEN (IF net THEN remote ELSE Absent) ELSE origin

\* ------------------------------------------------- the console sides at rest
Words == {"low", "high"}

\* Python's None, the empty string, and a text that contains the given
\* substrings
None == {"None"}
Empty == {}
Text(markers) == {"text"} \cup markers

\* None where an integer is expected (an integer is a pair of limbs, see the
\* MAC conversion)
NoInt == [hi |-> -1, lo |-> -1]

\* no run of the fuse programmer has started
FuseIdle ==
    /\ fpc = "idle"
    /\ sent = << >>
    /\ response = [w \in Words \cup {"setenv", "saveenv", "reset"} |-> Empty]
    /\ final_response = [w \in Words |-> Empty]
    /\ answered = [w \in Words |-> FALSE]
    /\ judged = [w \in Words |-> "none"]
    /\ result = "none"
    /\ seen_uboot = FALSE
    /\ polls = 0
    /\ reported = FALSE
    /\ fruns = 0

\* no conversion has been asked for
ConvIdle ==
    /\ mac_str = << >>
    /\ cstep = "idle"
    /\ fuse_values = [high |-> NoInt, low |-> NoInt]
    /\ cmd_low = << >>
    /\ cmd_high = << >>

\* no boot/login pass has started
LoginIdle ==
    /\ variant = "none"
    /\ lpc = "idle"
    /\ lsent = << >>
    /\ heard = << >>
    /\ lresult = "none"
    /\ elapsed = 0
    /\ wire = << >>

\* main has not been started
MainIdle ==
    /\ program = "none"
    /\ use_button = FALSE
    /\ mpc = "idle"
    /\ step_ix = 0
    /\ attempt = 0
    /\ powered = FALSE
    /\ uart_open = FALSE
    /\ mlog = << >>

\* no wait is under way
PollIdle ==
    /\ waiter = "none"
    /\ stream = << >>
    /\ arrived = << >>
    /\ pround = 0
    /\ found = "none"

\* no process has been started
HostIdle ==
    /\ on_host = << >>
    /\ hpc = << >>
    /\ workdir = << >>

\* main has not been started
LabelIdle ==
    /\ kpc = "none"
    /\ tries = 0
    /\ in_ledger = FALSE
    /\ was_in_ledger = FALSE
    /\ mac_newly_assigned = FALSE
    /\ programmed_by_me = FALSE
    /\ recorded_by_me = FALSE
    /\ print_attempt = 0
    /\ printed = 0

\* ------------------------------------------------------------------- Init
\* db.csv as seeded: no row assigned yet, stored with either line end, or
\* every row but the last one assigned to boards provisioned earlier
SeedLedger(k, e) ==
    [ i \in 1..NumMacs |-> Row(i, IF i <= k THEN LegacySerial ELSE Unassigned, e) ]

SeedLedgers ==
    { SeedLedger(0, e) : e \in Eols } \cup { SeedLedger(NumMacs - 1, "CRLF") }

Init ==
    /\ remote \in SeedLedgers
    /\ local = [s \in Stations |-> Absent]
    /\ base = [s \in Stations |-> Absent]
    /\ pc = [s \in Stations |-> "idle"]
    /\ board = [s \in Stations |-> 0]
    /\ mac_addr = [s \in Stations |-> NoMac]
    /\ self_mac_addr = [s \in Stations |-> NoMac]
    /\ newly = [s \in Stations |-> FALSE]
    /\ fetched = [s \in Stations |-> FALSE]
    /\ existed = [s \in Stations |-> NoMac]
    /\ stale = [s \in Stations |-> FALSE]
    /\ shape_ok = [s \in Stations |-> FALSE]
    /\ acts = [s \in Stations |-> {}]
    /\ fused = [b \in Serials |-> {}]
    /\ runs = 0
    /\ FuseIdle /\ ConvIdle /\ LoginIdle /\ MainIdle /\ PollIdle /\ HostIdle /\ LabelIdle

\* ---------------------------------------------------------------- actions
Failed == {"fail_serial", "fail_nomac", "fail_uboot", "fail_write", "fail_mark"}

Attached(b) == \E s \in Stations : board[s] = b

\* a host that holds no working copy and runs nothing, and a board that no
\* run has touched: such stations (boards) are interchangeable, so a run is
\* started on the lowest of them only
FreshStation(s) == pc[s] = "idle" /\ local[s] = Absent

InLedger(rows, b) == \E i \in 1..Len(rows) : rows[i].serial = b

FreshBoard(b) ==
    /\ ~Attached(b)
    /\ fused[b] = {}
    /\ ~InLedger(remote, b)
    /\ \A s \in Stations : ~InLedger(local[s], b) /\ ~InLedger(base[s], b)

LowestFresh(s, b) ==
    /\ FreshStation(s) => \A s2 \in Stations : s2 < s => ~FreshStation(s2)
    /\ FreshBoard(b) => \A b2 \in Serials : b2 < b => ~FreshBoard(b2)

\* main starts on a station with board b attached; assign_mac_address,
\* lines 918-928: UART set up and get_serial_number.  Whether the serial was
\* read is an input here; the boot/login pass that get_serial_number makes
\* first is the subject of SpecLogin
Start(s, b) ==
    /\ pc[s] = "idle"
    /\ ~Attached(b)
    /\ LowestFresh(s, b)
    /\ runs < MaxRuns
    /\ runs' = runs + 1
    /\ board' = [board EXCEPT ![s] = b]
    /\ \E ok \in BOOLEAN :
          pc' = [pc EXCEPT ![s] = IF ok THEN "check" ELSE "fail_serial"]
    /\ UNCHANGED << remote, local, base, mac_addr, self_mac_addr, newly, fetched,
                    existed, stale, shape_ok, acts, fused >>
    /\ UNCHANGED << fuse_vars, conv_vars, login_vars, main_vars, poll_vars, host_vars, label_vars >>

\* main, lines 1156-1259: after a failed step the button restarts the whole
\* run for the attached board; the BoardSetup object (self.mac_addr,
\* self.mac_newly_assigned) is kept
Retry(s) ==
    /\ pc[s] \in Failed
    /\ runs < MaxRuns
    /\ runs' = runs + 1
    /\ pc' = [pc EXCEPT ![s] = "check"]
    /\ mac_addr' = [mac_addr EXCEPT ![s] = NoMac]
    /\ fetched' = [fetched EXCEPT ![s] = FALSE]
    /\ existed' = [existed EXCEPT ![s] = NoMac]
    /\ shape_ok' = [shape_ok EXCEPT ![s] = FALSE]
    /\ acts' = [acts EXCEPT ![s] = {}]
    /\ UNCHANGED << remote, local, base, board, self_mac_addr, newly, stale,
                    fused >>
    /\ UNCHANGED << fuse_vars, conv_vars, login_vars, main_vars, poll_vars, host_vars, label_vars >>

\* the process ends (all steps done, or no retry); the board is taken away.
\* The working copy directory stays on the host
Exit(s) ==
    /\ pc[s] \in Failed \cup {"done"}
    /\ pc' = [pc EXCEPT ![s] = "idle"]
    /\ board' = [board EXCEPT ![s] = 0]
    /\ mac_addr' = [mac_addr EXCEPT ![s] = NoMac]
    /\ self_mac_addr' = [self_mac_addr EXCEPT ![s] = NoMac]
    /\ newly' = [newly EXCEPT ![s] = FALSE]
    /\ fetched' = [fetched EXCEPT ![s] = FALSE]
    /\ existed' = [existed EXCEPT ![s] = NoMac]
    /\ shape_ok' = [shape_ok EXCEPT ![s] = FALSE]
    /\ acts' = [acts EXCEPT ![s] = {}]
    /\ UNCHANGED << remote, local, base, stale, fused, runs >>
    /\ UNCHANGED << fuse_vars, conv_vars, login_vars, main_vars, poll_vars, host_vars, label_vars >>

\* assign_mac_address, lines 930-946: UARTFlasher() builds a MACDatabase
\* (setup_git), then get_mac_for_serial(serial_number)
GetMacForSerial(s) ==
    /\ pc[s] = "check"
    /\ \E cloneNet \in BOOLEAN, net \in BOOLEAN :
        LET l0 == setup_git(local[s], cloneNet)
            o0 == setup_git_origin(local[s], base[s], cloneNet)
            l1 == sync_local(l0, net)
            o1 == sync_origin(l0, o0, net)
            existing_mac ==
                IF sync_and_verify_db(l0, net)
                THEN get_mac_for_serial(l1, board[s]) ELSE NoMac
        IN  /\ local' = [local EXCEPT ![s] = l1]
            /\ base' = [base EXCEPT ![s] = o1]
            /\ fetched' = [fetched EXCEPT ![s] =
                    sync_done(l0, net) \/ (local[s] = Absent /\ cloneNet)]
            /\ stale' = [stale EXCEPT ![s] =
                    IF sync_done(l0, net) \/ (local[s] = Absent /\ cloneNet)
                    THEN FALSE ELSE @]
            /\ existed' = [existed EXCEPT ![s] = get_mac_for_serial(remote, board[s])]
            /\ IF existing_mac # NoMac
               THEN /\ self_mac_addr' = [self_mac_addr EXCEPT ![s] = existing_mac]
                    /\ newly' = [newly EXCEPT ![s] = FALSE]
                    /\ pc' = [pc EXCEPT ![s] = "done"]
               ELSE /\ pc' = [pc EXCEPT ![s] = "avail"]
                    /\ UNCHANGED << self_mac_addr, newly >>
    /\ UNCHANGED << remote, board, mac_addr, shape_ok, acts, fused, runs >>
    /\ UNCHANGED << fuse_vars, conv_vars, login_vars, main_vars, poll_vars, host_vars, label_vars >>

\* assign_mac_address, lines 949-963: "if not mac_addr" returns False, else
\* the MAC is shown and enter_uboot is called
after_scan_enters(m) == "uboot"

after_scan(m) == IF m = NoMac THEN "fail_nomac" ELSE "uboot"

\* assign_mac_address, lines 948-960: get_available_mac()
GetAvailableMac(s) ==
    /\ pc[s] = "avail"
    /\ \E net \in BOOLEAN :
        LET l1 == sync_local(local[s], net)
            o1 == sync_origin(local[s], base[s], net)
            m == IF sync_and_verify_db(local[s], net)
                 THEN get_available_mac(l1) ELSE NoMac
        IN  /\ local' = [local EXCEPT ![s] = l1]
            /\ base' = [base EXCEPT ![s] = o1]
            /\ fetched' = [fetched EXCEPT ![s] = sync_done(local[s], net)]
            /\ stale' = [stale EXCEPT ![s] =
                    IF sync_done(local[s], net) THEN FALSE ELSE @]
            /\ mac_addr' = [mac_addr EXCEPT ![s] = m]
            /\ pc' = [pc EXCEPT ![s] = after_scan(m)]
    /\ UNCHANGED << remote, board, self_mac_addr, newly, existed, shape_ok,
                    acts, fused, runs >>
    /\ UNCHANGED << fuse_vars, conv_vars, login_vars, main_vars, poll_vars, host_vars, label_vars >>

\* assign_mac_address, lines 962-972 and 999-1003: enter_uboot and
\* wait_for_boot_prompt, each of which may miss the bootloader
EnterUboot(s) ==
    /\ pc[s] = "uboot"
    /\ \E ok \in BOOLEAN :
          pc' = [pc EXCEPT ![s] = IF ok THEN "write" ELSE "fail_uboot"]
    /\ acts' = [acts EXCEPT ![s] = @ \cup {"uboot"}]
    /\ fetched' = [fetched EXCEPT ![s] = FALSE]
    /\ UNCHANGED << remote, local, base, board, mac_addr, self_mac_addr, newly,
                    existed, stale, shape_ok, fused, runs >>
    /\ UNCHANGED << fuse_vars, conv_vars, login_vars, main_vars, poll_vars, host_vars, label_vars >>

\* assign_mac_address, lines 977-998: mark_mac_as_used is called in the
\* branch "if flasher.write_mac_address(mac_addr)", the else branch reports
\* "Failed to write MAC address to the board"
after_write_marks(ok) == "mark"

after_write(ok) == IF ok THEN "mark" ELSE "fail_write"

\* assign_mac_address, line 977: write_mac_address(mac_addr) sends the
\* fuse-program commands for mac_addr to the attached board and reports
\* whether every marker was seen
WriteMacAddress(s) ==
    /\ pc[s] = "write"
    /\ fused' = [fused EXCEPT ![board[s]] = @ \cup {mac_addr[s]}]
    /\ \E ok \in BOOLEAN :
        /\ pc' = [pc EXCEPT ![s] = after_write(ok)]
        /\ acts' = [acts EXCEPT ![s] =
                @ \cup {"fuse"} \cup (IF ok THEN {"burned"} ELSE {})]
    /\ UNCHANGED << remote, local, base, board, mac_addr, self_mac_addr, newly,
                    fetched, existed, stale, shape_ok, runs >>
    /\ UNCHANGED << fuse_vars, conv_vars, login_vars, main_vars, poll_vars, host_vars, label_vars >>

MarkOutcomes == {"no_branch", "no_pr", "no_merge", "no_info", "ok"}

\* assign_mac_address, lines 978-992: mark_mac_as_used(mac_addr, serial_number)
\* - create_branch, rewrite of db.csv, commit, create_pull_request (push and
\* gh pr create), merge_pull_request (gh pr merge, then cleanup_local_repo),
\* update_board_info
MarkMacAsUsed(s) ==
    /\ pc[s] = "mark"
    /\ \E out \in MarkOutcomes :
        LET branch == rewrite_rows(local[s], mac_addr[s], board[s])
            committed == out # "no_branch" /\ updated(local[s], mac_addr[s])
            merged == committed /\ out \in {"no_info", "ok"}
            success == merged /\ out = "ok"
        IN  /\ merged => merge_pull_request(base[s], remote, branch)
            /\ remote' = IF merged
                         THEN merge_result(base[s], remote, branch) ELSE remote
            /\ local' = [local EXCEPT ![s] =
                    IF merged THEN Absent ELSE IF committed THEN branch ELSE @]
            /\ base' = [base EXCEPT ![s] = IF merged THEN Absent ELSE @]
            /\ shape_ok' = [shape_ok EXCEPT ![s] =
                    IF committed THEN verify_pr_changes(base[s], branch) ELSE @]
            /\ stale' = [stale EXCEPT ![s] =
                    IF merged THEN FALSE ELSE IF committed THEN TRUE ELSE @]
            /\ acts' = [acts EXCEPT ![s] = @ \cup
                    (IF out # "no_branch" THEN {"branch"} ELSE {}) \cup
                    (IF committed THEN {"commit"} ELSE {}) \cup
                    (IF committed /\ out # "no_pr" THEN {"pr"} ELSE {}) \cup
                    (IF merged THEN {"merge"} ELSE {})]
            /\ self_mac_addr' = [self_mac_addr EXCEPT ![s] =
                    IF success THEN mac_addr[s] ELSE @]
            /\ newly' = [newly EXCEPT ![s] = IF success THEN TRUE ELSE @]
            /\ pc' = [pc EXCEPT ![s] = IF success THEN "done" ELSE "fail_mark"]
    /\ UNCHANGED << board, mac_addr, fetched, existed, fused, runs >>
    /\ UNCHANGED << fuse_vars, conv_vars, login_vars, main_vars, poll_vars, host_vars, label_vars >>

Next ==
    \/ \E s \in Stations, b \in Serials : Start(s, b)
    \/ \E s \in Stations : Retry(s)
    \/ \E s \in Stations : Exit(s)
    \/ \E s \in Stations : GetMacForSerial(s)
    \/ \E s \in Stations : GetAvailableMac(s)
    \/ \E s \in Stations : EnterUboot(s)
    \/ \E s \in Stations : WriteMacAddress(s)
    \/ \E s \in Stations : MarkMacAsUsed(s)

Spec == Init /\ [][Next]_vars

\* ------------------------------------ fuse programmer and bootloader bridge
\* read_uart rounds (one second each) that fit into the timeout of
\* wait_for_boot_prompt, and runs the operator starts
BootPolls == 2
MaxFuseRuns == 2

\* the substrings the code looks for
FusePrompt == "Really perform this fuse programming? <y/N>"
FuseMarker == "Programming bank 4 word"
MmcOk == "Loading Environment from MMC... OK"
UbootPrompt == "=>"

\* what is written to the UART
CmdOf(w) == IF w = "low" THEN "fuse prog 4 2" ELSE "fuse prog 4 3"
FuseCmds == { CmdOf(w) : w \in Words }

\* what read_uart can return while a command is answered, and while the
\* board starts
FuseReads ==
    {Empty} \cup { Text(m) : m \in SUBSET {FusePrompt, FuseMarker, "Unknown command"} }

BridgeReads == {Empty} \cup { Text(m) : m \in SUBSET {MmcOk, UbootPrompt} }

\* what read_uart can return after a command without confirmation
PlainReads == {Empty, Text({}), Text({"Unknown command"})}

\* Python's  marker in response  (the empty string is in every string)
in_response(marker, resp) == marker = "" \/ marker \in resp

\* Python's  not r
falsy(r) == r = Empty \/ r = None

\* enter_uboot, lines 523-534: the test of the last read
enter_uboot_found(resp) == in_response("", resp)

\* send_command, lines 105-107: the first read
send_command_read(r1) == IF r1 = Empty THEN None ELSE r1

\* send_command, line 110: the answer is sent
wants_answer(wait_for_confirmation, r1) ==
    wait_for_confirmation /\ ~falsy(send_command_read(r1)) /\ in_response(FusePrompt, r1)

\* send_command, lines 115-125: response += final_response, None if the
\* command was split
send_command_confirmed(r1, r2) ==
    LET resp == r1 \cup r2
    IN  IF in_response("Unknown command", resp) \/ in_response("command '", resp)
        THEN None ELSE resp

\* write_mac_address, lines 142 and 149: the word counts as programmed
word_programmed(res) == ~falsy(res) /\ in_response(FuseMarker, res)

\* a programmer that issues the command of a word again when its marker is missing
after_bad_word_resend(w) == w

\* write_mac_address, lines 143-144 and 150-151: return False
after_bad_word(w) == "returned"

\* write_mac_address, lines 146-157: the high word follows the low word,
\* setenv ethaddr follows the high word
after_good_word_skips_high(w) == "setenv"

after_good_word(w) == IF w = "low" THEN "high" ELSE "setenv"

ConfirmPc(w) == IF w = "low" THEN "low_confirm" ELSE "high_confirm"

Count(seq, x) == Cardinality({ i \in 1..Len(seq) : seq[i] = x })

\* the allocation side at rest: no station runs
AllocIdle ==
    /\ remote = SeedLedger(0, "CRLF")
    /\ local = [s \in Stations |-> Absent]
    /\ base = [s \in Stations |-> Absent]
    /\ pc = [s \in Stations |-> "idle"]
    /\ board = [s \in Stations |-> 0]
    /\ mac_addr = [s \in Stations |-> NoMac]
    /\ self_mac_addr = [s \in Stations |-> NoMac]
    /\ newly = [s \in Stations |-> FALSE]
    /\ fetched = [s \in Stations |-> FALSE]
    /\ existed = [s \in Stations |-> NoMac]
    /\ stale = [s \in Stations |-> FALSE]
    /\ shape_ok = [s \in Stations |-> FALSE]
    /\ acts = [s \in Stations |-> {}]
    /\ fused = [b \in Serials |-> {}]
    /\ runs = 0

InitFuse == AllocIdle /\ FuseIdle /\ ConvIdle /\ LoginIdle /\ MainIdle /\ PollIdle /\ HostIdle /\ LabelIdle

\* the verdict of write_mac_address on word w from what send_command returned
Verdict(w, res) ==
    /\ judged' = [judged EXCEPT ![w] = IF word_programmed(res) THEN "programmed" ELSE "failed"]
    /\ fpc' = IF word_programmed(res) THEN after_good_word(w) ELSE after_bad_word(w)
    /\ result' = IF word_programmed(res) THEN result ELSE "False"
    /\ reported' = (reported \/ ~word_programmed(res))

\* main: the operator starts a run; assign_mac_address has a MAC to write and
\* reaches line 962
fuse_start ==
    /\ fpc = "idle"
    /\ fruns < MaxFuseRuns
    /\ fruns' = fruns + 1
    /\ fpc' = "enter_uboot"
    /\ UNCHANGED << sent, response, final_response, answered, judged, result,
                    seen_uboot, polls, reported >>
    /\ UNCHANGED << alloc_vars, conv_vars, login_vars, main_vars, poll_vars, host_vars, label_vars >>

\* main, lines 1190-1209: the step failed, the operator presses the button
\* and the whole run starts again
fuse_retry ==
    /\ fpc = "bridge_failed" \/ (fpc = "returned" /\ result = "False")
    /\ fruns < MaxFuseRuns
    /\ fruns' = fruns + 1
    /\ fpc' = "enter_uboot"
    /\ sent' = << >>
    /\ response' = [w \in Words \cup {"setenv", "saveenv", "reset"} |-> Empty]
    /\ final_response' = [w \in Words |-> Empty]
    /\ answered' = [w \in Words |-> FALSE]
    /\ judged' = [w \in Words |-> "none"]
    /\ result' = "none"
    /\ seen_uboot' = FALSE
    /\ polls' = 0
    /\ reported' = FALSE
    /\ UNCHANGED << alloc_vars, conv_vars, login_vars, main_vars, poll_vars, host_vars, label_vars >>

\* the process ends
fuse_exit ==
    /\ fpc \in {"bridge_failed", "returned"}
    /\ fpc' = "idle"
    /\ sent' = << >>
    /\ response' = [w \in Words \cup {"setenv", "saveenv", "reset"} |-> Empty]
    /\ final_response' = [w \in Words |-> Empty]
    /\ answered' = [w \in Words |-> FALSE]
    /\ judged' = [w \in Words |-> "none"]
    /\ result' = "none"
    /\ seen_uboot' = FALSE
    /\ polls' = 0
    /\ reported' = FALSE
    /\ UNCHANGED fruns
    /\ UNCHANGED << alloc_vars, conv_vars, login_vars, main_vars, poll_vars, host_vars, label_vars >>

\* AutoSetup_uartDebug2.py enter_uboot: power cycle, 'b' written, the input
\* read; r is all that arrived until the last read
enter_uboot ==
    /\ fpc = "enter_uboot"
    /\ \E r \in BridgeReads :
        /\ seen_uboot' = in_response(UbootPrompt, r)
        /\ fpc' = IF enter_uboot_found(r) THEN "wait_prompt" ELSE "bridge_failed"
    /\ sent' = Append(sent, "b")
    /\ UNCHANGED << response, final_response, answered, judged, result, polls,
                    reported, fruns >>
    /\ UNCHANGED << alloc_vars, conv_vars, login_vars, main_vars, poll_vars, host_vars, label_vars >>

\* uart_flashing.py wait_for_boot_prompt: one round of its loop, or the
\* timeout; on success assign_mac_address calls write_mac_address
wait_for_boot_prompt ==
    /\ fpc = "wait_prompt"
    /\ IF polls < BootPolls
       THEN \E r \in BridgeReads :
              /\ polls' = polls + 1
              /\ seen_uboot' = (seen_uboot \/ in_response(UbootPrompt, r))
              /\ IF ~falsy(r) /\ in_response(MmcOk, r)
                 THEN /\ sent' = Append(sent, " ")
                      /\ fpc' = "low"
                 ELSE UNCHANGED << sent, fpc >>
       ELSE /\ fpc' = "bridge_failed"
            /\ UNCHANGED << sent, seen_uboot, polls >>
    /\ UNCHANGED << response, final_response, answered, judged, result, reported,
                    fruns >>
    /\ UNCHANGED << alloc_vars, conv_vars, login_vars, main_vars, poll_vars, host_vars, label_vars >>

\* write_mac_address, lines 139-151: send_command(cmd, wait_for_confirmation
\* =True) up to its first read; without an answer to send it returns and the
\* word is judged
fuse_prog(w) ==
    /\ fpc = w
    /\ sent' = Append(sent, CmdOf(w))
    /\ \E r1 \in FuseReads :
        /\ response' = [response EXCEPT ![w] = r1]
        /\ IF wants_answer(TRUE, r1)
           THEN /\ fpc' = ConfirmPc(w)
                /\ UNCHANGED << judged, result, reported >>
           ELSE Verdict(w, send_command_read(r1))
    /\ UNCHANGED << final_response, answered, seen_uboot, polls, fruns >>
    /\ UNCHANGED << alloc_vars, conv_vars, login_vars, main_vars, poll_vars, host_vars, label_vars >>

\* send_command, lines 111-125: the answer, the second read, and the verdict
\* of write_mac_address on what send_command returns
fuse_confirm(w) ==
    /\ fpc = ConfirmPc(w)
    /\ sent' = Append(sent, "y")
    /\ answered' = [answered EXCEPT ![w] = TRUE]
    /\ \E r2 \in FuseReads :
        /\ final_response' = [final_response EXCEPT ![w] = r2]
        /\ Verdict(w, send_command_confirmed(response[w], r2))
    /\ UNCHANGED << response, seen_uboot, polls, fruns >>
    /\ UNCHANGED << alloc_vars, conv_vars, login_vars, main_vars, poll_vars, host_vars, label_vars >>

\* write_mac_address, lines 156-167: setenv ethaddr and saveenv, each through
\* send_command without confirmation
send_env(cmd) ==
    /\ fpc = cmd
    /\ sent' = Append(sent, cmd)
    /\ \E r \in PlainReads :
        /\ response' = [response EXCEPT ![cmd] = r]
        /\ IF falsy(send_command_read(r))
           THEN /\ fpc' = "returned"
                /\ result' = "False"
                /\ reported' = TRUE
           ELSE /\ fpc' = (IF cmd = "setenv" THEN "saveenv" ELSE "reset")
                /\ UNCHANGED << result, reported >>
    /\ UNCHANGED << final_response, answered, judged, seen_uboot, polls, fruns >>
    /\ UNCHANGED << alloc_vars, conv_vars, login_vars, main_vars, poll_vars, host_vars, label_vars >>

\* write_mac_address, lines 173-175: send_command("reset"), whose return
\* value is dropped
send_reset ==
    /\ fpc = "reset"
    /\ sent' = Append(sent, "reset")
    /\ \E r \in PlainReads : response' = [response EXCEPT !["reset"] = r]
    /\ fpc' = "returned"
    /\ result' = "True"
    /\ UNCHANGED << final_response, answered, judged, seen_uboot, polls, reported, fruns >>
    /\ UNCHANGED << alloc_vars, conv_vars, login_vars, main_vars, poll_vars, host_vars, label_vars >>

NextFuse ==
    \/ fuse_start
    \/ fuse_retry
    \/ fuse_exit
    \/ enter_uboot
    \/ wait_for_boot_prompt
    \/ \E w \in Words : fuse_prog(w)
    \/ \E w \in Words : fuse_confirm(w)
    \/ \E cmd \in {"setenv", "saveenv"} : send_env(cmd)
    \/ send_reset

SpecFuse == InitFuse /\ [][NextFuse]_vars

\* ------------------------------------------------------------ MAC conversion
\* A string is the sequence of its characters.  Python's integers have no
\* width; an integer is kept as two limbs, hi * 65536 + lo.

\* how many of the sample octets the input MACs are built from
NumOctets == 3

OctetSamples ==
    << <<"0", "0">>, <<"e", "f">>, <<"0", "a">>, <<"f", "f">>, <<"1", "2">>, <<"8", "0">> >>

Octets == { OctetSamples[i] : i \in 1..NumOctets }

HexDigits == << "0", "1", "2", "3", "4", "5", "6", "7", "8", "9", "a", "b", "c", "d", "e", "f" >>

UpperDigits == << "0", "1", "2", "3", "4", "5", "6", "7", "8", "9", "A", "B", "C", "D", "E", "F" >>

\* ":".join(parts)
RECURSIVE join_colon(_)
join_colon(parts) ==
    IF Len(parts) = 0 THEN << >>
    ELSE IF Len(parts) = 1 THEN parts[1]
    ELSE parts[1] \o <<":">> \o join_colon(Tail(parts))

ExampleMac == << "a", "b", ":", "c", "d", ":", "e", "f", ":", "1", "2", ":", "3", "4", ":", "5", "6" >>

\* the MAC strings given to convert_mac_to_fuse_values: every MAC over the
\* sample octets, the example of the docstring in both cases, and strings
\* that are no MAC
MacInputs ==
    { join_colon(<<a, b, c, d, e, f>>) : a, b, c, d, e, f \in Octets }
    \cup { ExampleMac,
           << "A", "B", ":", "C", "D", ":", "E", "F", ":", "1", "2", ":", "3", "4", ":", "5", "6" >>,
           << "a", "b", ":", "c", "d", ":", "e", "f", ":", "1", "2", ":", "3", "4" >>,
           << "a", "b", ":", "c", "d", ":", "e", "g", ":", "1", "2", ":", "3", "4", ":", "5", "6" >>,
           << "1", ":", "2", ":", "3", ":", "4", ":", "5", ":", "6" >>,
           << "a", "b", "c", ":", "d", ":", "e", "f", ":", "1", "2", ":", "3", "4", ":", "5", "6" >> }

\* mac_str.split(':')
RECURSIVE split_colon(_)
split_colon(s) ==
    IF \A i \in 1..Len(s) : s[i] # ":" THEN << s >>
    ELSE LET i == CHOOSE k \in 1..Len(s) :
                      s[k] = ":" /\ \A j \in 1..(k - 1) : s[j] # ":"
         IN  << SubSeq(s, 1, i - 1) >> \o split_colon(SubSeq(s, i + 1, Len(s)))

is_hex(c) == \E i \in 1..Len(HexDigits) : HexDigits[i] = c \/ UpperDigits[i] = c

hex_value(c) == (CHOOSE i \in 1..Len(HexDigits) : HexDigits[i] = c \/ UpperDigits[i] = c) - 1

Big(h, l) == [hi |-> h, lo |-> l]

\* v * 16 + d
shift_add(v, d) ==
    LET x == v.lo * 16 + d
    IN  Big(v.hi * 16 + (x \div 65536), x % 65536)

RECURSIVE int_digits(_, _)
int_digits(s, acc) ==
    IF s = << >> THEN acc ELSE int_digits(Tail(s), shift_add(acc, hex_value(Head(s))))

\* what convert_mac_to_fuse_values returns from its except branch: (None, None)
NoValues == [high |-> NoInt, low |-> NoInt]

\* int(s, 16) raises ValueError (digits only: no sign, blank, prefix or underscore
\* is in the inputs)
ValueError(s) == s = << >> \/ \E i \in 1..Len(s) : ~is_hex(s[i])

int16(s) == int_digits(s, Big(0, 0))

\* line 21 with the octets taken in numeric byte order
low_digits_reversed(parts) == parts[6] \o parts[5] \o parts[4] \o parts[3]

\* line 21: parts[2] + parts[3] + parts[4] + parts[5]
low_digits(parts) == parts[3] \o parts[4] \o parts[5] \o parts[6]

\* line 19: parts[0] + parts[1]
high_digits(parts) == parts[1] \o parts[2]

convert_mac_to_fuse_values(s) ==
    LET parts == split_colon(s)
    IN  IF Len(parts) # 6 THEN NoValues
        ELSE IF ValueError(high_digits(parts)) \/ ValueError(low_digits(parts)) THEN NoValues
        ELSE [high |-> int16(high_digits(parts)), low |-> int16(low_digits(parts))]

\* format(v, 'x'): the hexadecimal digits of v, "0" for zero
RECURSIVE hex_of(_)
hex_of(v) ==
    IF v.hi = 0 /\ v.lo = 0 THEN << >>
    ELSE hex_of(Big(v.hi \div 16, (v.lo \div 16) + (v.hi % 16) * 4096))
         \o << HexDigits[(v.lo % 16) + 1] >>

\* format(v, '0<width>x')
format_x(v, width) ==
    LET d == IF v.hi = 0 /\ v.lo = 0 THEN << "0" >> ELSE hex_of(v)
    IN  IF Len(d) >= width THEN d ELSE [i \in 1..(width - Len(d)) |-> "0"] \o d

\* the low word written without padding
format_low_plain(low) == << "fuse prog 4 2 0x" >> \o format_x(low, 1)

\* write_mac_address, line 140: f"fuse prog 4 2 0x{low:08x}"
format_low(low) == << "fuse prog 4 2 0x" >> \o format_x(low, 8)

\* write_mac_address, line 147: f"fuse prog 4 3 0x{high:04x}"
format_high(high) == << "fuse prog 4 3 0x" >> \o format_x(high, 4)

InitConv ==
    /\ AllocIdle /\ FuseIdle /\ LoginIdle /\ MainIdle /\ PollIdle /\ HostIdle /\ LabelIdle
    /\ mac_str \in MacInputs
    /\ cstep = "input"
    /\ fuse_values = NoValues
    /\ cmd_low = << >>
    /\ cmd_high = << >>

\* write_mac_address, line 134
convert ==
    /\ cstep = "input"
    /\ fuse_values' = convert_mac_to_fuse_values(mac_str)
    /\ cstep' = "converted"
    /\ UNCHANGED << mac_str, cmd_low, cmd_high >>
    /\ UNCHANGED << alloc_vars, fuse_vars, login_vars, main_vars, poll_vars, host_vars, label_vars >>

\* write_mac_address, lines 135-137: return False
conversion_failed ==
    /\ cstep = "converted"
    /\ fuse_values.high = NoInt \/ fuse_values.low = NoInt
    /\ cstep' = "failed"
    /\ UNCHANGED << mac_str, fuse_values, cmd_low, cmd_high >>
    /\ UNCHANGED << alloc_vars, fuse_vars, login_vars, main_vars, poll_vars, host_vars, label_vars >>

\* write_mac_address, lines 140 and 147
format_commands ==
    /\ cstep = "converted"
    /\ ~(fuse_values.high = NoInt \/ fuse_values.low = NoInt)
    /\ cmd_low' = format_low(fuse_values.low)
    /\ cmd_high' = format_high(fuse_values.high)
    /\ cstep' = "formatted"
    /\ UNCHANGED << mac_str, fuse_values >>
    /\ UNCHANGED << alloc_vars, fuse_vars, login_vars, main_vars, poll_vars, host_vars, label_vars >>

NextConv == convert \/ conversion_failed \/ format_commands

SpecConv == InitConv /\ [][NextConv]_vars

\* ----------------------------------------------------------- boot and login
\* polling rounds of wait_for_boot_completion that fit under max_wait_time
BootRounds == 2

\* the files that hold attempt_login: AutomaticProcedure_mac/
\* AutoSetup_uartDebug2.py, AutomaticProcedure/AutoSetup_uartDebug2.py, and
\* AutoSetup.py (the same function in both directories but for a first
\* newline)
Variants == {"mac_debug2", "debug2", "autosetup"}

Debug2 == {"mac_debug2", "debug2"}

\* what read_all can return while the board starts or shows a prompt, after
\* the login name, and after the final blank line
PromptReads == {Empty} \cup { Text(m) : m \in SUBSET {"login:", "# ", "$ "} }

NameReads == {Empty, Text({}), Text({"Password:"})}

ProbeReads == {Empty} \cup { Text(m) : m \in SUBSET {"login:", "Password:", "# ", "$ "} }

\* Python's  word in response.lower()  for the words AutoSetup.py looks for
in_lower(word, resp) ==
    IF word = "login" THEN "login:" \in resp
    ELSE "Password:" \in resp \/ "password:" \in resp

\* wait_for_boot_completion, line 175: the name start_time is bound only
\* where line 168 (162 in AutomaticProcedure) is not commented out
start_time_bound(v) == v # "mac_debug2"

\* wait_for_boot_completion, lines 183-191
boot_complete(resp) ==
    in_response("login:", resp) \/ in_response("# ", resp) \/ in_response("$ ", resp)

\* attempt_login of AutoSetup_uartDebug2.py, lines 377-387
shell_found(resp) == in_response("# ", resp) \/ in_response("$ ", resp)

\* the verdict on the final probe: lines 377-387 of AutoSetup_uartDebug2.py,
\* lines 247-255 of AutoSetup.py
verify_login(v, resp) ==
    IF v \in Debug2 THEN shell_found(resp)
    ELSE ~(~falsy(resp) /\ (in_lower("login", resp) \/ in_lower("password", resp)))

Heard(at, resp) == Append(heard, [at |-> at, got |-> resp])

\* the bytes that end a written line: b"\r\n" for the blank lines and
\* f"{...}\r" for the login name and the password in attempt_login of
\* AutoSetup_uartDebug2.py (lines 336, 348, 358, 369, 373), f"{command}\n"
\* in send_uart_command of AutoSetup.py (line 190)
line_end(v, what) ==
    IF v \in Debug2
    THEN IF what \in {"login", "password"} THEN "CR" ELSE "CRLF"
    ELSE "LF"

Wrote(what) == Append(wire, [text |-> what, eol |-> line_end(variant, what)])

InitLogin ==
    /\ AllocIdle /\ FuseIdle /\ ConvIdle /\ MainIdle /\ PollIdle /\ HostIdle /\ LabelIdle
    /\ variant \in Variants
    /\ lpc = "start"
    /\ lsent = << >>
    /\ heard = << >>
    /\ lresult = "none"
    /\ elapsed = 0
    /\ wire = << >>

\* attempt_login is called
attempt_login ==
    /\ lpc = "start"
    /\ lpc' = IF variant \in Debug2 THEN "boot" ELSE "name"
    /\ UNCHANGED << variant, lsent, heard, lresult, elapsed, wire >>
    /\ UNCHANGED << alloc_vars, fuse_vars, conv_vars, main_vars, poll_vars, host_vars, label_vars >>

\* wait_for_boot_completion: the test of its loop and one round of it; on
\* False attempt_login returns False (lines 322-324)
wait_for_boot_completion ==
    /\ lpc = "boot"
    /\ IF ~start_time_bound(variant)
       THEN /\ lpc' = "returned"
            /\ lresult' = "NameError"
            /\ UNCHANGED << heard, elapsed, wire >>
       ELSE IF elapsed < BootRounds
       THEN \E r \in PromptReads :
              /\ heard' = Heard("boot", r)
              /\ wire' = Wrote("")
              /\ elapsed' = elapsed + 1
              /\ lpc' = IF boot_complete(r) THEN "check" ELSE "boot"
              /\ UNCHANGED lresult
       ELSE /\ lpc' = "returned"
            /\ lresult' = "False"
            /\ UNCHANGED << heard, elapsed, wire >>
    /\ UNCHANGED << variant, lsent >>
    /\ UNCHANGED << alloc_vars, fuse_vars, conv_vars, main_vars, poll_vars, host_vars, label_vars >>

\* attempt_login, lines 331-346: a newline, and what comes back
check_prompt ==
    /\ lpc = "check"
    /\ \E r \in PromptReads :
        /\ heard' = Heard("check", r)
        /\ wire' = Wrote("")
        /\ IF in_response("# ", r)
           THEN lpc' = "returned" /\ lresult' = "True"
           ELSE /\ lpc' = IF in_response("login:", r) THEN "name" ELSE "trigger"
                /\ UNCHANGED lresult
    /\ UNCHANGED << variant, lsent, elapsed >>
    /\ UNCHANGED << alloc_vars, fuse_vars, conv_vars, main_vars, poll_vars, host_vars, label_vars >>

\* attempt_login, lines 346-354: a second newline to get the login prompt
trigger_prompt ==
    /\ lpc = "trigger"
    /\ \E r \in PromptReads :
        /\ heard' = Heard("trigger", r)
        /\ wire' = Wrote("")
        /\ IF in_response("login:", r)
           THEN lpc' = "name" /\ UNCHANGED lresult
           ELSE lpc' = "returned" /\ lresult' = "False"
    /\ UNCHANGED << variant, lsent, elapsed >>
    /\ UNCHANGED << alloc_vars, fuse_vars, conv_vars, main_vars, poll_vars, host_vars, label_vars >>

\* the login name is written: lines 356-365 of AutoSetup_uartDebug2.py (a
\* password prompt must follow), lines 226-231 of AutoSetup.py (anything
\* must follow)
send_login ==
    /\ lpc = "name"
    /\ lsent' = Append(lsent, "login")
    /\ wire' = Wrote("login")
    /\ \E r \in NameReads :
        /\ heard' = Heard("name", r)
        /\ IF (IF variant \in Debug2
               THEN in_response("Password:", r) \/ in_response("password:", r)
               ELSE ~falsy(r))
           THEN lpc' = "password" /\ UNCHANGED lresult
           ELSE lpc' = "returned" /\ lresult' = "False"
    /\ UNCHANGED << variant, elapsed >>
    /\ UNCHANGED << alloc_vars, fuse_vars, conv_vars, main_vars, poll_vars, host_vars, label_vars >>

\* the password is written: lines 367-370 of AutoSetup_uartDebug2.py (no
\* read), lines 236-241 of AutoSetup.py (anything must come back)
send_password ==
    /\ lpc = "password"
    /\ lsent' = Append(lsent, "password")
    /\ wire' = Wrote("password")
    /\ IF variant \in Debug2
       THEN lpc' = "probe" /\ UNCHANGED << heard, lresult >>
       ELSE \E r \in {Empty, Text({})} :
              /\ heard' = Heard("password", r)
              /\ IF falsy(r)
                 THEN lpc' = "returned" /\ lresult' = "False"
                 ELSE lpc' = "probe" /\ UNCHANGED lresult
    /\ UNCHANGED << variant, elapsed >>
    /\ UNCHANGED << alloc_vars, fuse_vars, conv_vars, main_vars, poll_vars, host_vars, label_vars >>

\* the final blank line and the verdict
probe_login ==
    /\ lpc = "probe"
    /\ \E r \in ProbeReads :
        /\ heard' = Heard("probe", r)
        /\ wire' = Wrote("")
        /\ lresult' = IF verify_login(variant, r) THEN "True" ELSE "False"
    /\ lpc' = "returned"
    /\ UNCHANGED << variant, lsent, elapsed >>
    /\ UNCHANGED << alloc_vars, fuse_vars, conv_vars, main_vars, poll_vars, host_vars, label_vars >>

NextLogin ==
    \/ attempt_login
    \/ wait_for_boot_completion
    \/ check_prompt
    \/ trigger_prompt
    \/ send_login
    \/ send_password
    \/ probe_login

SpecLogin == InitLogin /\ [][NextLogin]_vars

\* the pass is one thread and every round of its loops takes bounded time
\* (sleeps, reads that do not block), so its next step is always taken
SpecLoginFair == SpecLogin /\ WF_vars(NextLogin)

\* ------------------------------------------------- the step sequence of main
MaxAttempts == 2

\* the list steps of each main
steps(p) ==
    IF p = "mac_debug2"
    THEN << "Setup UART connection", "Test connection", "Transfer files",
            "Install OS", "Assign MAC address", "Print Board Label" >>
    ELSE IF p = "debug2"
    THEN << "Setup UART connection", "Test connection", "Transfer files",
            "Install OS", "Assign MAC address" >>
    ELSE << "Setup Raspberry Pi network", "Setup UART connection",
            "Setup Crystal network", "Test connection", "Transfer files" >>

\* only the main of AutomaticProcedure_mac/AutoSetup_uartDebug2.py has the
\* loop "while retry"
retries(p) == p = "mac_debug2"

\* an entry of the record of what main did
Event(k, i, a) == [kind |-> k, step |-> i, attempt |-> a]

\* where the for loop goes after step i returned or raised: the next step on
\* a truthy result, the failure branch on a falsy one, the except clauses on
\* an exception
after_step_continue(p, res, i) ==
    IF res \in {"True", "False"}
    THEN IF res = "True" /\ i = Len(steps(p)) THEN "succeeded" ELSE "step"
    ELSE IF res = "KeyboardInterrupt" THEN "interrupted" ELSE "errored"

after_step(p, res, i) ==
    IF res = "True"
    THEN IF i = Len(steps(p)) THEN "succeeded" ELSE "step"
    ELSE IF res = "False" THEN "step_failed"
    ELSE IF res = "KeyboardInterrupt" THEN "interrupted" ELSE "errored"

\* the step a new pass of "while retry" begins with, given the step the
\* previous pass stopped at: the for loop iterates steps from its first entry
restart_at_stopped(stopped) == IF stopped = 0 THEN 1 ELSE stopped

restart_at(stopped) == 1

\* the finally clause of main (BoardSetup.cleanup in the mains without
\* retry): close the UART if it is open, then power the board off
exit_cleanup_no_power(open, a) ==
    IF open THEN << Event("close", 0, a) >> ELSE << >>

exit_cleanup(open, a) ==
    (IF open THEN << Event("close", 0, a) >> ELSE << >>)
        \o << Event("power_off", 0, a) >>

InitMain ==
    /\ AllocIdle /\ FuseIdle /\ ConvIdle /\ LoginIdle /\ PollIdle /\ HostIdle /\ LabelIdle
    /\ program \in Variants
    /\ use_button \in BOOLEAN
    /\ mpc = "wait_for_start"
    /\ step_ix = 0
    /\ attempt = 0
    /\ powered = FALSE
    /\ uart_open = FALSE
    /\ mlog = << >>

\* setup.wait_for_start(): returns at once without the button, else blocks
\* in wait_for_button_press, where Ctrl-C raises KeyboardInterrupt (outside
\* the inner try of the retrying main, inside the only try of the others)
wait_for_start ==
    /\ mpc = "wait_for_start"
    /\ \E pressed \in BOOLEAN :
        /\ ~pressed => use_button
        /\ mpc' = IF pressed THEN "power_on"
                  ELSE IF retries(program) THEN "finally" ELSE "interrupted"
    /\ UNCHANGED << program, use_button, step_ix, attempt, powered, uart_open, mlog >>
    /\ UNCHANGED << alloc_vars, fuse_vars, conv_vars, login_vars, poll_vars, host_vars, label_vars >>

\* the head of a pass: setup.power_on_crystal(), then the for loop starts
power_on_crystal ==
    /\ mpc = "power_on"
    /\ attempt' = attempt + 1
    /\ powered' = TRUE
    /\ step_ix' = restart_at(step_ix)
    /\ mlog' = Append(mlog, Event("power_on", 0, attempt + 1))
    /\ mpc' = "step"
    /\ UNCHANGED << program, use_button, uart_open >>
    /\ UNCHANGED << alloc_vars, fuse_vars, conv_vars, login_vars, poll_vars, host_vars, label_vars >>

\* one iteration of the for loop: step_func() is called; it returns True or
\* False or raises.  "Setup UART connection" constructs serial.Serial: the
\* port is open when it returns True and may be open when it does not.  The
\* steps power-cycle the board and leave it powered.
run_step ==
    /\ mpc = "step"
    /\ \E res \in {"True", "False", "KeyboardInterrupt", "Exception"}, opened \in BOOLEAN :
        LET name == steps(program)[step_ix]
            outcome == IF res = "True" THEN "ok"
                       ELSE IF res = "False" THEN "fail"
                       ELSE IF res = "KeyboardInterrupt" THEN "interrupt" ELSE "error"
        IN  /\ opened => name = "Setup UART connection"
            /\ (res = "True" /\ name = "Setup UART connection") => opened
            /\ uart_open' = (uart_open \/ opened)
            /\ mlog' = mlog \o << Event("start", step_ix, attempt) >>
                          \o (IF opened THEN << Event("open", step_ix, attempt) >> ELSE << >>)
                          \o << Event(outcome, step_ix, attempt) >>
            /\ mpc' = after_step(program, res, step_ix)
            /\ step_ix' = IF res = "True" /\ step_ix < Len(steps(program))
                          THEN step_ix + 1 ELSE step_ix
    /\ powered' = TRUE
    /\ UNCHANGED << program, use_button, attempt >>
    /\ UNCHANGED << alloc_vars, fuse_vars, conv_vars, login_vars, poll_vars, host_vars, label_vars >>

\* the branch "if not step_func()": the name of the step is logged and shown,
\* the board is powered off; then the retrying main waits for the button when
\* it has one, and every other case ends in sys.exit(1)
report_failure ==
    /\ mpc = "step_failed"
    /\ mlog' = mlog \o << Event("report", step_ix, attempt),
                          Event("power_off", 0, attempt) >>
    /\ powered' = FALSE
    /\ mpc' = IF retries(program) /\ use_button THEN "retry_in_try" ELSE "finally"
    /\ UNCHANGED << program, use_button, step_ix, attempt, uart_open >>
    /\ UNCHANGED << alloc_vars, fuse_vars, conv_vars, login_vars, poll_vars, host_vars, label_vars >>

\* except KeyboardInterrupt
on_keyboard_interrupt ==
    /\ mpc = "interrupted"
    /\ mlog' = Append(mlog, Event("interrupted", 0, attempt))
    /\ mpc' = IF retries(program) /\ use_button THEN "retry_in_handler" ELSE "finally"
    /\ UNCHANGED << program, use_button, step_ix, attempt, powered, uart_open >>
    /\ UNCHANGED << alloc_vars, fuse_vars, conv_vars, login_vars, poll_vars, host_vars, label_vars >>

\* except Exception: without the button the retrying main calls sys.exit(1)
on_exception ==
    /\ mpc = "errored"
    /\ mlog' = Append(mlog, Event("unexpected", 0, attempt))
    /\ mpc' = IF retries(program) /\ use_button THEN "retry_in_handler" ELSE "finally"
    /\ UNCHANGED << program, use_button, step_ix, attempt, powered, uart_open >>
    /\ UNCHANGED << alloc_vars, fuse_vars, conv_vars, login_vars, poll_vars, host_vars, label_vars >>

\* gpio_mgr.wait_for_button_press() before a retry: the press sets retry and
\* the loop starts another pass; Ctrl-C is caught by except KeyboardInterrupt
\* when the wait is in the try body and leaves the loop when it is in an
\* except clause
wait_for_button_press ==
    /\ mpc \in {"retry_in_try", "retry_in_handler"}
    /\ \E pressed \in BOOLEAN :
        /\ pressed => attempt < MaxAttempts
        /\ mpc' = IF pressed THEN "power_on"
                  ELSE IF mpc = "retry_in_try" THEN "interrupted" ELSE "finally"
    /\ UNCHANGED << program, use_button, step_ix, attempt, powered, uart_open, mlog >>
    /\ UNCHANGED << alloc_vars, fuse_vars, conv_vars, login_vars, poll_vars, host_vars, label_vars >>

\* every step returned True: "Setup completed successfully"
report_success ==
    /\ mpc = "succeeded"
    /\ mlog' = Append(mlog, Event("complete", 0, attempt))
    /\ mpc' = "finally"
    /\ UNCHANGED << program, use_button, step_ix, attempt, powered, uart_open >>
    /\ UNCHANGED << alloc_vars, fuse_vars, conv_vars, login_vars, poll_vars, host_vars, label_vars >>

\* the finally clause, after which the process ends
cleanup ==
    /\ mpc = "finally"
    /\ LET done == exit_cleanup(uart_open, attempt)
       IN  /\ mlog' = mlog \o done
           /\ uart_open' = (uart_open /\ \A i \in DOMAIN done : done[i].kind # "close")
           /\ powered' = (powered /\ \A i \in DOMAIN done : done[i].kind # "power_off")
    /\ mpc' = "ended"
    /\ UNCHANGED << program, use_button, step_ix, attempt >>
    /\ UNCHANGED << alloc_vars, fuse_vars, conv_vars, login_vars, poll_vars, host_vars, label_vars >>

NextMain ==
    \/ wait_for_start
    \/ power_on_crystal
    \/ run_step
    \/ report_failure
    \/ on_keyboard_interrupt
    \/ on_exception
    \/ wait_for_button_press
    \/ report_success
    \/ cleanup

SpecMain == InitMain /\ [][NextMain]_vars

\* ------------------------------------------------- waits on the byte stream
\* polls that fit into the timeout of a wait
PollRounds == 3

\* a marker as the characters the board sends
Chars(marker) ==
    IF marker = "login:"
    THEN << "l", "o", "g", "i", "n", ":" >>
    ELSE << "L", "o", "a", "d", "i", "n", "g", " ", "E", "n", "v", "i", "r",
         "o", "n", "m", "e", "n", "t", " ", "f", "r", "o", "m", " ", "M", "M",
         "C", ".", ".", ".", " ", "O", "K" >>

\* Python's  marker in text  over characters
contains(text, marker) ==
    \E i \in 0..(Len(text) - Len(marker)) :
        SubSeq(text, i + 1, i + Len(marker)) = marker

\* the test a wait makes on what one poll returned: wait_for_boot_completion
\* on response = uart.read_all() (lines 181-191), wait_for_boot_prompt on
\* response = read_uart() (uart_flashing.py, lines 82-85)
marker_found(w, resp) ==
    IF w = "wait_for_boot_completion"
    THEN \/ contains(resp, Chars("login:"))
         \/ contains(resp, << "#", " " >>)
         \/ contains(resp, << "$", " " >>)
    ELSE resp # << >> /\ contains(resp, Chars(MmcOk))

\* the ways text can come in: a first part is in the input buffer at poll
\* at, the rest at the next poll, nothing at the other polls
Chunked(text) ==
    { [ i \in 1..PollRounds |->
            IF i = at THEN SubSeq(text, 1, k)
            ELSE IF i = at + 1 THEN SubSeq(text, k + 1, Len(text))
            ELSE << >> ] :
        at \in 1..(PollRounds - 1), k \in 0..Len(text) }

\* a wait is called while the board sends its marker, whole or without its
\* last character
InitPoll ==
    /\ AllocIdle /\ FuseIdle /\ ConvIdle /\ LoginIdle /\ MainIdle /\ HostIdle /\ LabelIdle
    /\ waiter \in {"wait_for_boot_completion", "wait_for_boot_prompt"}
    /\ LET marker == Chars(IF waiter = "wait_for_boot_completion" THEN "login:" ELSE MmcOk)
       IN  stream \in { marker, SubSeq(marker, 1, Len(marker) - 1) }
    /\ arrived \in Chunked(stream)
    /\ pround = 0
    /\ found = "none"

\* one round of the loop of the wait, or its timeout: the input buffer is
\* read and emptied (read_all; read_uart starts from buffer = ""), and the
\* test is made on what this read returned
poll ==
    /\ waiter # "none"
    /\ found = "none"
    /\ IF pround < PollRounds
       THEN /\ pround' = pround + 1
            /\ found' = IF marker_found(waiter, arrived[pround + 1]) THEN "True" ELSE "none"
       ELSE /\ found' = "False"
            /\ UNCHANGED pround
    /\ UNCHANGED << waiter, stream, arrived >>
    /\ UNCHANGED << alloc_vars, fuse_vars, conv_vars, login_vars, main_vars, host_vars, label_vars >>

SpecPoll == InitPoll /\ [][poll]_vars

\* ------------------------------------ provisioning processes on shared hosts
\* processes that build a MACDatabase (assign_mac_address through
\* UARTFlasher, the main of uart_flashing.py, the main of macdb.py); a host
\* is a station
NumProcs == 2

Procs == 1..NumProcs

\* MACDatabase.__init__: self.local_path, never given by a caller of this
\* directory, is the default "/tmp/mac-db" of the host the process runs on
dir_of(r) == << on_host[r], "/tmp/mac-db" >>

InitHost ==
    /\ AllocIdle /\ FuseIdle /\ ConvIdle /\ LoginIdle /\ MainIdle /\ PollIdle /\ LabelIdle
    /\ on_host \in [Procs -> Stations]
    /\ hpc = [r \in Procs |-> "idle"]
    /\ workdir \in [ { << h, "/tmp/mac-db" >> : h \in Stations } -> {"absent", "main"} ]

\* MACDatabase(): setup_git clones into local_path when the directory does
\* not exist and opens what is there when it does
MACDatabase(r) ==
    /\ hpc[r] = "idle"
    /\ hpc' = [hpc EXCEPT ![r] = "ready"]
    /\ workdir' = [workdir EXCEPT ![dir_of(r)] = IF @ = "absent" THEN "main" ELSE @]
    /\ UNCHANGED on_host
    /\ UNCHANGED << alloc_vars, fuse_vars, conv_vars, login_vars, main_vars, poll_vars,
                    label_vars >>

\* mark_mac_as_used, line 165: create_branch checks a new branch out in
\* local_path; it returns None when that raises (the directory is gone)
create_branch(r) ==
    /\ hpc[r] = "ready"
    /\ IF workdir[dir_of(r)] = "absent"
       THEN /\ hpc' = [hpc EXCEPT ![r] = "failed"]
            /\ UNCHANGED workdir
       ELSE /\ hpc' = [hpc EXCEPT ![r] = "branched"]
            /\ workdir' = [workdir EXCEPT ![dir_of(r)] = "mac-assign"]
    /\ UNCHANGED on_host
    /\ UNCHANGED << alloc_vars, fuse_vars, conv_vars, login_vars, main_vars, poll_vars,
                    label_vars >>

\* merge_pull_request, line 137: after the merge cleanup_local_repo removes
\* local_path with everything in it
cleanup_local_repo(r) ==
    /\ hpc[r] = "branched"
    /\ hpc' = [hpc EXCEPT ![r] = "done"]
    /\ workdir' = [workdir EXCEPT ![dir_of(r)] = "absent"]
    /\ UNCHANGED on_host
    /\ UNCHANGED << alloc_vars, fuse_vars, conv_vars, login_vars, main_vars, poll_vars,
                    label_vars >>

NextHost ==
    \/ \E r \in Procs : MACDatabase(r)
    \/ \E r \in Procs : create_branch(r)
    \/ \E r \in Procs : cleanup_local_repo(r)

SpecHost == InitHost /\ [][NextHost]_vars

\* -------------------------------------------------- the label of a board
\* One process of AutoSetup_uartDebug2.py with one board, seen from the two
\* last steps of main: 'Assign MAC address' and 'Print Board Label'.  The
\* ledger is reduced to whether it has a row for this board.
InitLabel ==
    /\ AllocIdle /\ FuseIdle /\ ConvIdle /\ LoginIdle /\ MainIdle /\ PollIdle /\ HostIdle
    /\ kpc = "uart"
    /\ tries = 1
    /\ in_ledger \in BOOLEAN
    /\ was_in_ledger = in_ledger
    /\ mac_newly_assigned = FALSE
    /\ programmed_by_me = FALSE
    /\ recorded_by_me = FALSE
    /\ print_attempt = 0
    /\ printed = 0

\* main, lines 1166-1170 and 1175-1178: the steps before 'Assign MAC
\* address' (UART, connection test, file transfer, OS installation), any of
\* which may fail
earlier_steps ==
    /\ kpc \in {"uart", "test", "transfer", "install"}
    /\ \E ok \in BOOLEAN :
          kpc' = IF ~ok THEN "failed"
                 ELSE CASE kpc = "uart" -> "test"
                        [] kpc = "test" -> "transfer"
                        [] kpc = "transfer" -> "install"
                        [] kpc = "install" -> "assign"
    /\ UNCHANGED << tries, in_ledger, was_in_ledger, mac_newly_assigned,
                    programmed_by_me, recorded_by_me, print_attempt, printed >>
    /\ UNCHANGED << alloc_vars, fuse_vars, conv_vars, login_vars, main_vars, poll_vars,
                    host_vars >>

\* assign_mac_address: a row found by get_mac_for_serial ends the step with
\* mac_newly_assigned = False (lines 935-946); otherwise the step goes on
\* to a free MAC, the bootloader, the fuses and the claim, and sets
\* mac_newly_assigned = True when mark_mac_as_used returned True (977-983).
\* The lookup finds only what is in the ledger, and misses a row when it
\* reads a working copy that was not refreshed
assign_mac_address ==
    /\ kpc = "assign"
    /\ \E row \in BOOLEAN,
          out \in {"no_serial", "no_mac", "no_uboot", "no_write", "no_merge", "no_info", "ok"} :
        /\ row => in_ledger
        /\ IF row /\ out # "no_serial"
           THEN /\ mac_newly_assigned' = FALSE
                /\ kpc' = "label"
                /\ UNCHANGED << in_ledger, programmed_by_me, recorded_by_me >>
           ELSE LET merged == out \in {"no_info", "ok"}
                IN  /\ in_ledger' = (in_ledger \/ merged)
                    /\ programmed_by_me' = (programmed_by_me \/ merged \/ out = "no_merge")
                    /\ recorded_by_me' = (recorded_by_me \/ merged)
                    /\ mac_newly_assigned' = IF out = "ok" THEN TRUE ELSE mac_newly_assigned
                    /\ kpc' = IF out = "ok" THEN "label" ELSE "failed"
    /\ UNCHANGED << tries, was_in_ledger, print_attempt, printed >>
    /\ UNCHANGED << alloc_vars, fuse_vars, conv_vars, login_vars, main_vars, poll_vars,
                    host_vars >>

\* print_board_label, lines 1093-1106, and print_label, lines 1007-1044:
\* skipped with True unless mac_newly_assigned; the template may be missing
\* and the update command may fail; otherwise try_print_label starts
print_board_label ==
    /\ kpc = "label"
    /\ IF ~mac_newly_assigned
       THEN kpc' = "success"
       ELSE \E ok \in BOOLEAN : kpc' = IF ok THEN "printing" ELSE "failed"
    /\ print_attempt' = 0
    /\ UNCHANGED << tries, in_ledger, was_in_ledger, mac_newly_assigned,
                    programmed_by_me, recorded_by_me, printed >>
    /\ UNCHANGED << alloc_vars, fuse_vars, conv_vars, login_vars, main_vars, poll_vars,
                    host_vars >>

\* try_print_label, lines 1046-1091: one pass of its loop, up to
\* max_attempts = 3 with a button press in between
try_print_label ==
    /\ kpc = "printing"
    /\ print_attempt < 3
    /\ print_attempt' = print_attempt + 1
    /\ \E ok \in BOOLEAN :
        /\ printed' = IF ok THEN printed + 1 ELSE printed
        /\ kpc' = IF ok THEN "success"
                  ELSE IF print_attempt' >= 3 THEN "failed" ELSE "printing"
    /\ UNCHANGED << tries, in_ledger, was_in_ledger, mac_newly_assigned,
                    programmed_by_me, recorded_by_me >>
    /\ UNCHANGED << alloc_vars, fuse_vars, conv_vars, login_vars, main_vars, poll_vars,
                    host_vars >>

\* main, lines 1193-1201 and 1159: after the button the loop starts the list
\* of steps again, with the same BoardSetup object
retry_after_failure ==
    /\ kpc = "failed"
    /\ tries < MaxAttempts
    /\ tries' = tries + 1
    /\ kpc' = "uart"
    /\ UNCHANGED << in_ledger, was_in_ledger, mac_newly_assigned, programmed_by_me,
                    recorded_by_me, print_attempt, printed >>
    /\ UNCHANGED << alloc_vars, fuse_vars, conv_vars, login_vars, main_vars, poll_vars,
                    host_vars >>

NextLabel ==
    \/ earlier_steps
    \/ assign_mac_address
    \/ print_board_label
    \/ try_print_label
    \/ retry_after_failure

SpecLabel == InitLabel /\ [][NextLabel]_vars

\* ------------------------------------------------------------------ claims
\* the second column of the row of MAC m
ledger_serial(rows, m) ==
    LET i == CHOOSE i \in 1..Len(rows) : rows[i].mac = m
    IN  rows[i].serial


\* C1: no MAC address is ever sent in fuse-program commands to two boards
\* with different serials, whatever the interleaving of the stations.
C1_NoMacInTwoBoards ==
    \A b1, b2 \in Serials : b1 # b2 => fused[b1] \cap fused[b2] = {}

\* C2: fuse-program commands for MAC M are sent to a board only after
\* mark_mac_as_used has reported the ledger claim of M for that board
\* successful.
C2_FuseOnlyAfterMerge ==
    \A b \in Serials : \A m \in fused[b] : ledger_serial(remote, m) = b

\* C3: of the claims of different boards for one row at most one reports
\* success, the other attempts end in a reported failure, and the row shows
\* the winner's serial - never both, never the loser's.
C3_AtMostOneClaimPerRow ==
    /\ [](\A s1, s2 \in Stations :
            ( /\ s1 # s2
              /\ pc[s1] \in {"done", "fail_mark"} /\ pc[s2] \in {"done", "fail_mark"}
              /\ mac_addr[s1] # NoMac /\ mac_addr[s1] = mac_addr[s2]
              /\ board[s1] # board[s2] )
            => (pc[s1] = "fail_mark" \/ pc[s2] = "fail_mark"))
    /\ [][\A s \in Stations :
             (pc[s] = "mark" /\ pc'[s] = "done") =>
                /\ ledger_serial(remote, mac_addr[s]) \in {Unassigned, board[s]}
                /\ ledger_serial(remote', mac_addr[s]) = board[s]]_vars
    /\ [][\A m \in Macs :
             ledger_serial(remote, m) \in Serials =>
                ledger_serial(remote', m) = ledger_serial(remote, m)]_vars

\* the ledger had one unassigned row; two stations claimed it for different
\* boards; one claim was merged, the other was committed and rejected
C3_Witness ==
    \E s1, s2 \in Stations :
        /\ pc[s1] = "done" /\ "merge" \in acts[s1]
        /\ pc[s2] = "fail_mark" /\ "commit" \in acts[s2]
        /\ mac_addr[s1] = mac_addr[s2] /\ board[s1] # board[s2]
        /\ \A i \in 1..Len(remote) :
              IF remote[i].mac = mac_addr[s1] THEN remote[i].serial = board[s1]
              ELSE remote[i].serial = LegacySerial

\* C4: on the main line every MAC keeps its one row (no row is removed or
\* duplicated), and a row that is assigned never changes its serial again.
C4_LedgerAppendOnly ==
    /\ [](Len(remote) = NumMacs /\ \A i \in 1..Len(remote) : remote[i].mac = i)
    /\ [][\A i \in 1..Len(remote) :
             remote[i].serial # Unassigned => remote'[i].serial = remote[i].serial]_vars

\* two rows assigned by the claims of two boards, one of the claims made from
\* a working copy that was behind the main line
C4_Witness ==
    \E i, j \in 1..Len(remote) :
        /\ i # j
        /\ remote[i].serial \in Serials /\ remote[j].serial \in Serials
        /\ remote[i].serial # remote[j].serial
        /\ \E s \in Stations : pc[s] = "fail_mark" /\ "pr" \in acts[s]

\* C5: one board is never sent fuse-program commands for two distinct MACs.
C5_OneMacPerBoard ==
    \A b \in Serials : Cardinality(fused[b]) <= 1

\* C6: when the ledger already holds a row for the board's serial,
\* assign_mac_address selects no candidate, sends no fuse-program command,
\* creates no branch, commit or change request, and if it returns success
\* the board's MAC is that row's MAC.
C6_Idempotent ==
    \A s \in Stations :
        existed[s] # NoMac =>
            /\ mac_addr[s] = NoMac
            /\ acts[s] = {}
            /\ pc[s] = "done" => self_mac_addr[s] = existed[s]

\* C7: mark_mac_as_used returns success only for a change that
\* verify_pr_changes accepts (one line added, one removed, in db.csv).
C7_SuccessOnlyIfOneRow ==
    \A s \in Stations :
        (pc[s] = "done" /\ "merge" \in acts[s]) => shape_ok[s]

\* C8: a MAC returned by get_available_mac or get_mac_for_serial was read
\* from content fetched from the remote head in that call.
C8_DecisionOnFetched ==
    \A s \in Stations :
        /\ pc[s] = "uboot" => fetched[s]
        /\ (pc[s] = "done" /\ mac_addr[s] = NoMac) => fetched[s]

\* C9: after a rejected claim the station starts no further claim before a
\* fetch and hard reset to the remote head have taken place.
C9_ResyncBeforeNextClaim ==
    \A s \in Stations : pc[s] = "mark" => ~stale[s]

\* C10: after a successful synchronize, get_available_mac returns the MAC of
\* the first row in file order that carries the sentinel, None exactly when
\* no row carries it, and equal content gives equal results.
C10_FirstUnassigned ==
    /\ \A s \in Stations :
          (fetched[s] /\ pc[s] \in {"uboot", "fail_nomac"}) =>
             /\ (pc[s] = "fail_nomac") = (mac_addr[s] = NoMac)
             /\ (mac_addr[s] = NoMac) =
                   (\A i \in 1..Len(local[s]) : local[s][i].serial # Unassigned)
             /\ mac_addr[s] # NoMac =>
                   \E i \in 1..Len(local[s]) :
                      /\ local[s][i].mac = mac_addr[s]
                      /\ local[s][i].serial = Unassigned
                      /\ \A j \in 1..(i - 1) : local[s][j].serial # Unassigned
    /\ \A s1, s2 \in Stations :
          ( /\ pc[s1] \in {"uboot", "fail_nomac"} /\ pc[s2] \in {"uboot", "fail_nomac"}
            /\ local[s1] = local[s2] )
          => mac_addr[s1] = mac_addr[s2]

\* a synchronized scan that passed over an assigned row and returned the
\* MAC of the row after it, while a later row is unassigned too or absent
C10_Witness ==
    \E s \in Stations :
        /\ pc[s] = "uboot" /\ fetched[s]
        /\ local[s][1].serial # Unassigned
        /\ mac_addr[s] = local[s][2].mac

\* C11: when the low word's completion marker does not appear after the
\* answer, or the confirmation prompt was never answered, write_mac_address
\* returns False and has sent no high-word command, no setenv, no saveenv and
\* no reset.
C11_LowFailureStopsAll ==
    ( /\ judged["low"] # "none"
      /\ ~(answered["low"] /\ in_response(FuseMarker, final_response["low"])) )
    => /\ fpc = "returned" /\ result = "False"
       /\ \A c \in {CmdOf("high"), "setenv", "saveenv", "reset"} : Count(sent, c) = 0

\* C12: a fuse word is judged programmed exactly when send_command saw the
\* confirmation prompt, sent the answer, and the completion marker was in the
\* bytes read after the answer; in every other case it is judged failed.
C12_MarkerAfterAnswer ==
    \A w \in Words :
        judged[w] # "none" =>
            ( (judged[w] = "programmed") <=>
              ( /\ in_response(FusePrompt, response[w])
                /\ answered[w]
                /\ in_response(FuseMarker, final_response[w]) ) )

\* C13: within one invocation each of the two fuse-program commands is sent
\* at most once, and once write_mac_address has returned False no
\* fuse-program command is sent until the operator has asked for a retry of
\* the whole run.
C13_NoSilentRetry ==
    /\ [](\A c \in FuseCmds : Count(sent, c) <= 1)
    /\ [][\A c \in FuseCmds : Count(sent', c) > Count(sent, c) => ~reported]_vars

\* in a run the operator asked for after a failure, the low word was
\* programmed, the high word's prompt was answered and no marker came: the
\* invocation has returned False with each command sent once
C13_Witness ==
    /\ fruns = MaxFuseRuns
    /\ fpc = "returned" /\ result = "False" /\ reported
    /\ judged["low"] = "programmed" /\ judged["high"] = "failed"
    /\ answered["high"]
    /\ ~in_response(FuseMarker, response["high"] \cup final_response["high"])
    /\ \A c \in FuseCmds : Count(sent, c) = 1

\* a MAC string of six two-hex-digit octets separated by colons, read by position
valid_mac(s) ==
    /\ Len(s) = 17
    /\ \A i \in 1..Len(s) : IF i % 3 = 0 THEN s[i] = ":" ELSE is_hex(s[i])

\* the value of the octet number k (from 0) of a MAC string
octet(s, k) == hex_value(s[3 * k + 1]) * 16 + hex_value(s[3 * k + 2])

\* a sequence of digits cut into groups of two
RECURSIVE pairs_of(_)
pairs_of(d) ==
    IF Len(d) <= 2 THEN (IF d = << >> THEN << >> ELSE << d >>)
    ELSE << SubSeq(d, 1, 2) >> \o pairs_of(SubSeq(d, 3, Len(d)))

\* the MAC read back from the digits of the two fuse commands
rebuilt_mac == join_colon(pairs_of(Tail(cmd_high)) \o pairs_of(Tail(cmd_low)))

\* C14: for a MAC of six two-hex-digit octets o0..o5 the function returns
\* high = the 16-bit integer with the digits o0 o1 and low = the 32-bit
\* integer with the digits o2 o3 o4 o5.
C14_HighLowWords ==
    (cstep \in {"converted", "formatted", "failed"} /\ valid_mac(mac_str)) =>
        /\ fuse_values.high = Big(0, octet(mac_str, 0) * 256 + octet(mac_str, 1))
        /\ fuse_values.low = Big(octet(mac_str, 2) * 256 + octet(mac_str, 3),
                                 octet(mac_str, 4) * 256 + octet(mac_str, 5))

\* ab:cd:ef:12:34:56 converted to high 0xabcd and low 0xef123456
C14_Witness ==
    /\ cstep = "converted"
    /\ mac_str = ExampleMac
    /\ fuse_values = [high |-> Big(0, 43981), low |-> Big(61202, 13398)]

\* C15: for a lowercase MAC of six two-hex-digit octets, the digits of the
\* two fuse commands (high as 4, low as 8 hex digits) cut into octets and
\* joined with colons are the original string.
C15_RoundTrip ==
    ( /\ cstep = "formatted"
      /\ valid_mac(mac_str)
      /\ \A i \in 1..Len(mac_str) :
            mac_str[i] = ":" \/ \E k \in 1..Len(HexDigits) : HexDigits[k] = mac_str[i] )
    => rebuilt_mac = mac_str

\* the all-zero MAC went through the commands and came back
C15_Witness ==
    /\ cstep = "formatted"
    /\ mac_str = join_colon([k \in 1..6 |-> << "0", "0" >>])
    /\ cmd_low = << "fuse prog 4 2 0x", "0", "0", "0", "0", "0", "0", "0", "0" >>
    /\ rebuilt_mac = mac_str

\* C16: enter_uboot and wait_for_boot_prompt both succeed, so that
\* write_mac_address starts, only if the marker "=>" was in the serial input
\* after the power cycle; when the marker never came, the result is failure
\* and no fuse-program command is sent.
C16_PromptOnlyOnMarker ==
    /\ Count(sent, " ") > 0 => seen_uboot
    /\ ~seen_uboot => \A c \in FuseCmds : Count(sent, c) = 0

\* C17: when the input shows "login:" until the login name is sent, then
\* the echo with the password prompt, then the shell prompt "# ", the pass
\* ends with attempt_login returning True after the login name and then the
\* password were sent, each once.
C17_LoginThenShell ==
    ( /\ variant \in Debug2 /\ lpc = "returned"
      /\ \A i \in 1..Len(heard) :
            /\ heard[i].at \in {"boot", "check", "trigger"} =>
                  (in_response("login:", heard[i].got) /\ ~shell_found(heard[i].got))
            /\ heard[i].at = "name" => in_response("Password:", heard[i].got)
            /\ heard[i].at = "probe" =>
                  /\ in_response("# ", heard[i].got)
                  /\ ~in_response("login:", heard[i].got)
                  /\ ~in_response("Password:", heard[i].got) )
    => (lresult = "True" /\ lsent = << "login", "password" >>)

\* C18: when no read shows a login prompt or a shell prompt before the wait
\* ceiling, wait_for_boot_completion returns False without an exception,
\* attempt_login returns False, and no credentials are sent.
C18_BootTimeout ==
    ( /\ variant \in Debug2 /\ lpc = "returned"
      /\ \A i \in 1..Len(heard) : ~boot_complete(heard[i].got) )
    => (lresult = "False" /\ lsent = << >>)

\* C19: when the input shows a shell prompt ("# " or "$ ") and never a login
\* prompt (every read shows the same prompt), the pass ends with attempt_login returning True and neither the
\* login name nor the password sent.
C19_ShellShortCircuit ==
    ( /\ variant \in Debug2 /\ lpc = "returned"
      /\ heard # << >>
      /\ \A i \in 1..Len(heard) :
            /\ shell_found(heard[i].got) /\ ~in_response("login:", heard[i].got)
            /\ heard[i].got = heard[1].got )
    => (lresult = "True" /\ lsent = << >>)

\* C20: after the login name and the password were sent, attempt_login
\* returns True only if the final blank-line probe brought output and that
\* output holds no login or password prompt.
C20_ProbeDecides ==
    (lpc = "returned" /\ lsent = << "login", "password" >> /\ lresult = "True")
    => \E i \in 1..Len(heard) :
          /\ heard[i].at = "probe"
          /\ heard[i].got # Empty
          /\ ~in_response("login:", heard[i].got)
          /\ ~in_response("Password:", heard[i].got)

\* C21: main runs its steps strictly in the listed order; a step starts only
\* after every earlier step of the same pass returned success; when a step
\* returns failure no later step of that pass runs, the name of the failed
\* step is reported and the board is powered off.
C21_StepsInOrder ==
    \A p \in 1..Len(mlog) :
        /\ mlog[p].kind = "start" =>
            /\ p > 1
            /\ mlog[p - 1] = IF mlog[p].step = 1
                             THEN Event("power_on", 0, mlog[p].attempt)
                             ELSE Event("ok", mlog[p].step - 1, mlog[p].attempt)
            /\ \A j \in 1..(mlog[p].step - 1) :
                   \E q \in 1..(p - 1) : mlog[q] = Event("ok", j, mlog[p].attempt)
        /\ mlog[p].kind = "fail" =>
            /\ \A q \in (p + 1)..Len(mlog) :
                   mlog[q].kind = "start" => mlog[q].attempt > mlog[p].attempt
            /\ IF p = Len(mlog)
               THEN mpc = "step_failed"
               ELSE /\ mlog[p + 1] = Event("report", mlog[p].step, mlog[p].attempt)
                    /\ mlog[p + 2] = Event("power_off", 0, mlog[p].attempt)

\* the third step of a main without retry returned False and the process
\* has ended
C21_Witness ==
    /\ program = "debug2"
    /\ mpc = "ended"
    /\ \E p \in 1..Len(mlog) : mlog[p] = Event("fail", 3, 1)

\* C22: after a failed step, an interrupt or an unexpected error the only
\* continuation is a retry of the whole run, from power-on and the first
\* step: a step that starts afterwards belongs to a later pass, which began
\* with power-on and in which every earlier step has succeeded again.
C22_RetryFromTheTop ==
    \A p \in 1..Len(mlog) :
        mlog[p].kind \in {"fail", "interrupt", "error"} =>
            \A q \in (p + 1)..Len(mlog) :
                mlog[q].kind = "start" =>
                    /\ mlog[q].attempt > mlog[p].attempt
                    /\ \E r \in (p + 1)..(q - 1) :
                           mlog[r] = Event("power_on", 0, mlog[q].attempt)
                    /\ \A j \in 1..(mlog[q].step - 1) :
                           \E r \in (p + 1)..(q - 1) :
                               mlog[r] = Event("ok", j, mlog[q].attempt)

\* a step raised in the fourth step of the first pass, the button was
\* pressed, and the second pass has come to its second step
C22_Witness ==
    \E p, q \in 1..Len(mlog) :
        /\ p < q
        /\ mlog[p] = Event("error", 4, 1)
        /\ mlog[q] = Event("start", 2, 2)

\* C23: on every way out of main (all steps succeeded, a step failed and no
\* retry, interrupt, unexpected exception) the board is powered off after the
\* last activity of a step, and a serial port that was opened is closed,
\* before the process ends.
C23_CleanExit ==
    mpc = "ended" =>
        /\ ~powered
        /\ ~uart_open
        /\ \E p \in 1..Len(mlog) :
               /\ mlog[p].kind = "power_off"
               /\ \A q \in (p + 1)..Len(mlog) :
                      mlog[q].kind \notin {"power_on", "start", "open", "ok", "fail",
                                           "interrupt", "error"}
        /\ \A p \in 1..Len(mlog) :
               mlog[p].kind = "open" =>
                   \E q \in (p + 1)..Len(mlog) : mlog[q].kind = "close"

\* the process has ended after an unexpected exception, without a button to
\* retry, of a step that ran with the serial port open
C23_Witness ==
    /\ mpc = "ended"
    /\ ~use_button
    /\ \E p, q \in 1..Len(mlog) :
           /\ p < q
           /\ mlog[p].kind = "open"
           /\ mlog[q] = Event("error", 3, 1)

\* C24: the side record boardInfo.txt is never authoritative: whether a
\* claim is reported successful is decided by the ledger merge, not by the
\* outcome of writing the side record (a merged claim is never reported
\* failed).
C24_SideRecordNotDecisive ==
    \A s \in Stations : pc[s] = "fail_mark" => "merge" \notin acts[s]

\* C25: when an assign_mac_address invocation has ended after
\* write_mac_address programmed MAC M into the board and returned True, the
\* ledger main line records M as assigned to that board's serial.
C25_LedgerNeverLags ==
    \A s \in Stations :
        (pc[s] \in {"done", "fail_mark"} /\ "burned" \in acts[s]) =>
            ledger_serial(remote, mac_addr[s]) = board[s]

\* C26: mark_mac_as_used is called only after write_mac_address returned
\* success for that MAC on this board; when fuse programming fails, no
\* branch, commit, change request or merge is created.
C26_MarkOnlyAfterBurn ==
    \A s \in Stations :
        /\ (pc[s] = "mark" \/ acts[s] \cap {"branch", "commit", "pr", "merge"} # {}) =>
              /\ "burned" \in acts[s]
              /\ mac_addr[s] \in fused[board[s]]
        /\ pc[s] = "fail_write" =>
              acts[s] \cap {"branch", "commit", "pr", "merge"} = {}

\* one station has merged its claim after a successful burn while the burn
\* of another station failed
C26_Witness ==
    \E s, t \in Stations :
        /\ pc[s] = "done" /\ {"burned", "merge"} \subseteq acts[s]
        /\ pc[t] = "fail_write" /\ "fuse" \in acts[t]

\* C27: write_mac_address issues its commands in the fixed order low word,
\* high word, setenv ethaddr, saveenv, reset; each is sent only if every
\* earlier one was judged successful; it returns True only if the first
\* four were judged successful, whatever the response to reset.
C27_CommandOrder ==
    LET order == << CmdOf("low"), CmdOf("high"), "setenv", "saveenv", "reset" >>
        cmds == SelectSeq(sent, LAMBDA x : x \in { order[i] : i \in 1..5 })
    IN  /\ Len(cmds) <= 5
        /\ \A i \in 1..Len(cmds) : cmds[i] = order[i]
        /\ Len(cmds) >= 2 => judged["low"] = "programmed"
        /\ Len(cmds) >= 3 => judged["high"] = "programmed"
        /\ Len(cmds) >= 4 => ~falsy(send_command_read(response["setenv"]))
        /\ Len(cmds) >= 5 => ~falsy(send_command_read(response["saveenv"]))
        /\ result = "True" => Len(cmds) = 5
        /\ (fpc = "returned" /\ Len(cmds) = 5) => result = "True"

\* write_mac_address has returned True after a reset that was not answered
C27_Witness ==
    /\ fpc = "returned"
    /\ result = "True"
    /\ sent[Len(sent)] = "reset"
    /\ response["reset"] = Empty

\* C28: setenv ethaddr and saveenv are verified: a response that reports
\* "Unknown command" makes write_mac_address fail at that step, and nothing
\* is sent after it.
C28_EnvVerified ==
    \A c \in {"setenv", "saveenv"} :
        in_response("Unknown command", response[c]) =>
            /\ fpc = "returned"
            /\ result = "False"
            /\ sent[Len(sent)] = c

\* C29: marker detection tolerates chunking: when the characters of the
\* marker arrive split across two consecutive polls within the timeout, the
\* wait returns what it returns when they arrive in a single read.
C29_ChunkTolerant ==
    found # "none" => ((found = "True") = marker_found(waiter, stream))

\* C30: every serial wait terminates: whatever the input, an invocation of
\* attempt_login (with its wait_for_boot_completion) ends with a success or
\* failure result after a bounded number of polls.
C30_WaitsEnd == <>(lresult \in {"True", "False"})

\* C31: at most one serial session is open at any moment: a serial port is
\* never opened while the handle opened before it is still open (the handle
\* of the previous pass is closed before a retry opens one).
C31_OneSerialSession ==
    \A p, q \in 1..Len(mlog) :
        (p < q /\ mlog[p].kind = "open" /\ mlog[q].kind = "open") =>
            \E r \in (p + 1)..(q - 1) : mlog[r].kind = "close"

\* C32: the local working copy is owned by one run: two processes that run
\* at the same time on one host never use the same working-copy directory.
C32_WorkingCopyExclusive ==
    \A r1, r2 \in Procs :
        ( /\ r1 # r2
          /\ hpc[r1] \in {"ready", "branched"}
          /\ hpc[r2] \in {"ready", "branched"} )
        => dir_of(r1) # dir_of(r2)

\* C33: every line attempt_login of AutoSetup_uartDebug2.py writes to the
\* serial port (blank-line probes, login name, password) ends with CR then
\* LF.
C33_CrLfOnEveryLine ==
    variant \in Debug2 => \A i \in 1..Len(wire) : wire[i].eol = "CRLF"

\* C34: whenever mark_mac_as_used returns False, the main line of the remote
\* ledger has the content it had before the call.
C34_FailedClaimLeavesLedger ==
    [][\A s \in Stations :
          (pc[s] = "mark" /\ pc'[s] = "fail_mark") => remote' = remote]_vars

\* C35: when the synchronized ledger has no row with the sentinel and no row
\* with the board's serial, assign_mac_address reports failure, and it does
\* so without entering the bootloader, without a fuse-program command and
\* without a branch, commit or change request.
C35_NoMacNoAction ==
    \A s \in Stations :
        /\ ( /\ pc[s] \in {"uboot", "fail_nomac"}
             /\ fetched[s]
             /\ ~InLedger(local[s], Unassigned)
             /\ ~InLedger(local[s], board[s]) )
           => pc[s] = "fail_nomac"
        /\ pc[s] = "fail_nomac" => (acts[s] = {} /\ mac_addr[s] = NoMac)

\* a run has reported that no MAC is available, on a fetched ledger in which
\* every row is assigned to another board
C35_Witness ==
    \E s \in Stations :
        /\ pc[s] = "fail_nomac"
        /\ fetched[s]
        /\ local[s] # Absent
        /\ ~InLedger(local[s], Unassigned)
        /\ ~InLedger(local[s], board[s])
        /\ acts[s] = {}

\* C36: on the main line of the ledger each board serial is the assigned
\* serial of at most one row.
C36_OneRowPerSerial ==
    \A i, j \in 1..Len(remote) :
        (i # j /\ remote[i].serial \in Serials) => remote[i].serial # remote[j].serial

\* C37: write_mac_address gets as far as its fuse-program commands only for
\* a MAC string of exactly six colon-separated octets of exactly two hex
\* digits each; for every other string it returns failure first.
C37_OnlyWellFormed ==
    /\ cstep = "formatted" => valid_mac(mac_str)
    /\ (cstep \in {"converted", "failed"} /\ ~valid_mac(mac_str)) =>
            (fuse_values.high = NoInt \/ fuse_values.low = NoInt)

\* C38: when an attempt of main ends with all steps successful, a label has
\* been printed exactly if this process programmed the board's MAC and
\* recorded it, in this attempt or in an earlier one of the retry loop; a
\* board that was in the ledger before the process started gets no label.
C38_LabelIffNewlyRecorded ==
    kpc = "success" =>
        /\ (printed > 0) <=> (programmed_by_me /\ recorded_by_me)
        /\ was_in_ledger => printed = 0

====
